---- MODULE Spec2Model ----
(***************************************************************************)
(* Model of the LUMA language server (server/src/server.ts):               *)
(*   - stringSimilarity, the bigram Dice coefficient;                      *)
(*   - findKeyword over knownTokens;                                       *)
(*   - validateTextDocument, the character scanner;                        *)
(*   - the settings cache and the event loop that runs validations;        *)
(*   - onCompletion and onCompletionResolve.                               *)
(* A character is a one-element string; a text is a sequence of them.      *)
(* CR, LF, SP and TAB name the carriage return, line feed, space and tab.  *)
(***************************************************************************)
EXTENDS Integers, Sequences, FiniteSets, TLC

VARIABLES
    letters,    \* validateTextDocument: text.split('') of the pass being scanned
    scan,       \* validateTextDocument: the local scan state and diagnostics
                \* of the pass under way or, between passes, of the last one
    pc,         \* where the pass is: "idle", "scan", "returned" or "threw"
    lifecycle,  \* "created", then "initialized" by the initialize request
    hasConfigurationCapability,
    globalSettings,
    documentSettings,   \* uri -> the cached Thenable (index in promises), 0 for none
    promises,   \* the Thenables of connection.workspace.getConfiguration, by index
    documents,  \* the TextDocuments manager: uri -> its TextDocument object, 0 for none
    docObjs,    \* the content of every TextDocument object created, by index
    calls,      \* the validateTextDocument calls suspended at the await of line 201
    issued,     \* number of validateTextDocument calls made
    fetches,    \* uri -> configuration fetches issued since its cache entry was last removed
    outcomes,   \* what the finished calls and diagnostic requests produced
    sim,        \* stringSimilarity: its arguments and locals
    simPc,      \* where a stringSimilarity call is: "idle", "start", "build", "match", "done"
    completions \* the completion and resolve requests served, with their replies

scanVars == <<letters, scan, pc>>

serverVars ==
    <<lifecycle, hasConfigurationCapability, globalSettings, documentSettings,
      promises, documents, docObjs, calls, issued, fetches, outcomes>>

simVars == <<sim, simPc>>

completionVars == <<completions>>

vars == <<scanVars, serverVars, simVars, completionVars>>

----------------------------------------------------------------------------
(* Characters and strings *)

CR == "CR"
LF == "LF"
SP == " "
TAB == "TAB"

UpperCase ==
    <<"A", "B", "C", "D", "E", "F", "G", "H", "I", "J", "K", "L", "M",
      "N", "O", "P", "Q", "R", "S", "T", "U", "V", "W", "X", "Y", "Z">>

LowerCase ==
    <<"a", "b", "c", "d", "e", "f", "g", "h", "i", "j", "k", "l", "m",
      "n", "o", "p", "q", "r", "s", "t", "u", "v", "w", "x", "y", "z">>

\* String.prototype.toLowerCase on one character: the letters A-Z change,
\* the other characters of the model's alphabet do not.
LowerChar(c) ==
    IF \E k \in DOMAIN UpperCase : UpperCase[k] = c
    THEN LowerCase[CHOOSE k \in DOMAIN UpperCase : UpperCase[k] = c]
    ELSE c

toLowerCase(str) == [i \in 1..Len(str) |-> LowerChar(str[i])]

\* The characters String.prototype.trim strips.
IsWhiteSpace(c) == c \in {SP, TAB, CR, LF}

RECURSIVE TrimStart(_)
TrimStart(str) ==
    IF str # <<>> /\ IsWhiteSpace(Head(str)) THEN TrimStart(Tail(str)) ELSE str

RECURSIVE TrimEnd(_)
TrimEnd(str) ==
    IF str # <<>> /\ IsWhiteSpace(str[Len(str)])
    THEN TrimEnd(SubSeq(str, 1, Len(str) - 1))
    ELSE str

trim(str) == TrimEnd(TrimStart(str))

\* str.substr(i, n) with a 0-based start i: at most n characters from i on.
substr(str, i, n) ==
    IF n <= 0 THEN <<>>
    ELSE SubSeq(str, i + 1, IF i + n <= Len(str) THEN i + n ELSE Len(str))

----------------------------------------------------------------------------
(* stringSimilarity, server.ts 35-60.  The result is the exact quotient    *)
(* num/den, kept as a pair of integers.                                    *)

Ratio(n, d) == [num |-> n, den |-> d]

\* map.has(k) ? map.get(k) : 0
MapCount(map, k) == IF k \in DOMAIN map THEN map[k] ELSE 0

MapSet(map, k, v) == [x \in (DOMAIN map) \cup {k} |-> IF x = k THEN v ELSE map[x]]

\* SimBuildStep with the first loop started at i = 1.
SimBuildStepSkipsFirst(map, str1, i, substringLength) ==
    IF i = 0 THEN map
    ELSE LET substr1 == substr(str1, i, substringLength)
         IN  MapSet(map, substr1, MapCount(map, substr1) + 1)

\* SimBuildStep with map.set(substr1, 1): occurrences are not counted.
SimBuildStepNoCount(map, str1, i, substringLength) ==
    MapSet(map, substr(str1, i, substringLength), 1)

\* One iteration of the first loop (lines 44-47).
SimBuildStep(map, str1, i, substringLength) ==
    LET substr1 == substr(str1, i, substringLength)
    IN  MapSet(map, substr1, MapCount(map, substr1) + 1)

\* SimMatchStep without line 54, the decrement of the count.
SimMatchStepStaticCount(mm, str2, j, substringLength) ==
    LET substr2 == substr(str2, j, substringLength)
    IN  IF MapCount(mm.map, substr2) > 0
        THEN [mm EXCEPT !.match = @ + 1]
        ELSE mm

\* One iteration of the second loop (lines 50-57) on <<map, match>>.
SimMatchStep(mm, str2, j, substringLength) ==
    LET substr2 == substr(str2, j, substringLength)
        count == MapCount(mm.map, substr2)
    IN  IF count > 0
        THEN [map |-> MapSet(mm.map, substr2, count - 1), match |-> mm.match + 1]
        ELSE mm

RECURSIVE SimBuildLoop(_, _, _, _)
SimBuildLoop(map, str1, i, substringLength) ==
    IF i < Len(str1) - (substringLength - 1)
    THEN SimBuildLoop(SimBuildStep(map, str1, i, substringLength),
                      str1, i + 1, substringLength)
    ELSE map

RECURSIVE SimMatchLoop(_, _, _, _)
SimMatchLoop(mm, str2, j, substringLength) ==
    IF j < Len(str2) - (substringLength - 1)
    THEN SimMatchLoop(SimMatchStep(mm, str2, j, substringLength),
                      str2, j + 1, substringLength)
    ELSE mm

\* Lines 36-39: the case folding of both arguments.
SimFold(str, caseSensitive) == IF caseSensitive THEN str ELSE toLowerCase(str)

\* Line 59.
SimResult(match, str1, str2, substringLength) ==
    Ratio(match * 2, Len(str1) + Len(str2) - ((substringLength - 1) * 2))

stringSimilarity(s1, s2, substringLength, caseSensitive) ==
    LET str1 == SimFold(s1, caseSensitive)
        str2 == SimFold(s2, caseSensitive)
    IN  IF Len(str1) < substringLength \/ Len(str2) < substringLength
        THEN Ratio(0, 1)
        ELSE LET map == SimBuildLoop(<<>>, str1, 0, substringLength)
                 mm == SimMatchLoop([map |-> map, match |-> 0], str2, 0,
                                    substringLength)
             IN  SimResult(mm.match, str1, str2, substringLength)

----------------------------------------------------------------------------
(* findKeyword, server.ts 191-197 *)

Characters == <<"c", "h", "a", "r", "a", "c", "t", "e", "r", "s">>
Project == <<"p", "r", "o", "j", "e", "c", "t">>

knownTokens == <<Characters, Project>>

\* AboveThreshold with the threshold 0.8.
AboveThresholdEightTenths(score) == score.num * 10 > 8 * score.den

\* score > 0.7, on the exact quotient
AboveThreshold(score) == score.num * 10 > 7 * score.den

\* The default arguments of stringSimilarity: substringLength = 2,
\* caseSensitive = false (line 35).
DefaultSimilarity(word, token) == stringSimilarity(word, token, 2, FALSE)

RECURSIVE FindFrom(_, _)
FindFrom(word, k) ==
    IF k > Len(knownTokens) THEN <<>>
    ELSE IF AboveThreshold(DefaultSimilarity(word, knownTokens[k]))
         THEN knownTokens[k]
         ELSE FindFrom(word, k + 1)

\* The token found, or the empty string for undefined (`?? ''`, line 216).
findKeyword(word) == FindFrom(word, 1)

----------------------------------------------------------------------------
(* validateTextDocument, server.ts 199-321 *)

ExpectedProjectName == "Expected project name."
ExpectedSemicolon == "Expected ; after project name."
CannotFind == "Cannot find"

\* textDocument.positionAt(offset) as an offset: the document clamps the
\* offset into [0, length] before it converts it to a line and a column.
positionAt(text, offset) ==
    IF offset < 0 THEN 0 ELSE IF offset > Len(text) THEN Len(text) ELSE offset

\* Diagnostic with the two ends of the range exchanged.
DiagnosticSwapped(text, start, end, message, word, suggestion) ==
    [start |-> positionAt(text, end), end |-> positionAt(text, start),
     message |-> message, word |-> word, suggestion |-> suggestion]

\* A Diagnostic (severity Error and source 'LUMA' are the same for all).
\* word is the formingWord quoted by a "Cannot find" message and suggestion
\* the keyword of its "Did you mean" suffix, empty when it has none.
Diagnostic(text, start, end, message, word, suggestion) ==
    [start |-> positionAt(text, start), end |-> positionAt(text, end),
     message |-> message, word |-> word, suggestion |-> suggestion]

\* Lines 205-211: the locals of one pass.  expectingSemicolon is declared
\* without a value.
NewScanState ==
    [j |-> 0, offset |-> 0, formingWord |-> <<>>, keywordMatched |-> FALSE,
     userDefinedString |-> FALSE, expectingSemicolon |-> "undefined",
     diagnostics |-> <<>>, threw |-> FALSE]

\* ScanStateAtCall with the word and the flags kept from the previous pass.
ScanStateKept(prev) ==
    [NewScanState EXCEPT !.formingWord = prev.formingWord,
                         !.keywordMatched = prev.keywordMatched,
                         !.userDefinedString = prev.userDefinedString,
                         !.expectingSemicolon = prev.expectingSemicolon]

\* Lines 204-211 at the start of a call; prev is the scan state the previous
\* pass left behind, which a new call does not see.
ScanStateAtCall(prev) == NewScanState

\* Line 213.
EndOfWord(letter) == letter = SP \/ letter = CR \/ letter = LF

\* Lines 213-229: the word-boundary check.
WordBoundaryCheck(s, text, letter) ==
    LET endOfWord == EndOfWord(letter)
        formingWord == IF ~endOfWord THEN Append(s.formingWord, letter)
                       ELSE s.formingWord
    IN  IF endOfWord /\ Len(trim(formingWord)) > 1
        THEN LET correctedKeyword == findKeyword(trim(formingWord))
                 diagnostic == Diagnostic(text, s.offset - Len(formingWord),
                                          s.offset, CannotFind, formingWord,
                                          correctedKeyword)
             IN  [s EXCEPT !.diagnostics =
                               IF ~s.keywordMatched /\ ~s.userDefinedString
                               THEN Append(@, diagnostic) ELSE @,
                           !.formingWord = <<>>,
                           !.keywordMatched = FALSE]
        ELSE [s EXCEPT !.formingWord = formingWord]

\* SemicolonCondition without the look-behind at letters[j - 1].
SemicolonConditionNoLookBehind(s, text) ==
    IF s.expectingSemicolon = "true" THEN "true" ELSE "false"

\* SemicolonCondition with the look-behind evaluated first.
SemicolonConditionLookBehindFirst(s, text) ==
    IF s.j - 1 < 0 THEN "throws"
    ELSE IF text[s.j] # ";" /\ s.expectingSemicolon = "true" THEN "true"
    ELSE "false"

\* Line 232, the condition: expectingSemicolon && !letters[j - 1].includes(';').
\* && evaluates letters[j - 1] only when expectingSemicolon is true; at j = 0
\* letters[-1] is undefined and .includes throws a TypeError.
SemicolonCondition(s, text) ==
    IF s.expectingSemicolon # "true" THEN "false"
    ELSE IF s.j - 1 < 0 THEN "throws"
    ELSE IF text[s.j] # ";" THEN "true" ELSE "false"

\* CarriageReturnCheck without line 246, userDefinedString = false.
CarriageReturnCheckKeepsString(s, text, letter) ==
    IF letter # CR THEN s
    ELSE LET cond == SemicolonCondition(s, text)
         IN  IF cond = "throws" THEN [s EXCEPT !.threw = TRUE]
             ELSE [s EXCEPT !.diagnostics =
                               IF cond = "true"
                               THEN Append(@, Diagnostic(text, s.offset - 1,
                                                         s.offset,
                                                         ExpectedSemicolon,
                                                         <<>>, <<>>))
                               ELSE @,
                            !.expectingSemicolon = "false"]

\* Lines 230-247: the carriage-return check.  text[s.j] is letters[j - 1].
CarriageReturnCheck(s, text, letter) ==
    IF letter # CR THEN s
    ELSE LET cond == SemicolonCondition(s, text)
         IN  IF cond = "throws" THEN [s EXCEPT !.threw = TRUE]
             ELSE [s EXCEPT !.diagnostics =
                               IF cond = "true"
                               THEN Append(@, Diagnostic(text, s.offset - 1,
                                                         s.offset,
                                                         ExpectedSemicolon,
                                                         <<>>, <<>>))
                               ELSE @,
                            !.expectingSemicolon = "false",
                            !.userDefinedString = FALSE]

\* letters[k]?.length for a 0-based k: every element of text.split('') is
\* one UTF-16 code unit, of length 1; out of range the element, and so the
\* optional chain, is undefined.
OptionalLength(text, k) ==
    IF k >= 0 /\ k < Len(text) THEN [defined |-> TRUE, value |-> 1]
    ELSE [defined |-> FALSE, value |-> 0]

\* v == 0 for v a number or undefined: undefined == 0 is false.
LooseEqualsZero(v) == v.defined /\ v.value = 0

\* KeywordTrigger without line 276, userDefinedString = true.
KeywordTriggerNoString(s, text) ==
    IF s.formingWord = Project
    THEN [s EXCEPT !.diagnostics =
                      IF LooseEqualsZero(OptionalLength(text, s.j + 2))
                      THEN Append(@, Diagnostic(text, s.offset, s.offset + 2,
                                                ExpectedProjectName,
                                                <<>>, <<>>))
                      ELSE @,
                   !.expectingSemicolon = "true",
                   !.keywordMatched = TRUE]
    ELSE s

\* Lines 248-282: the switch on formingWord.
KeywordTrigger(s, text) ==
    IF s.formingWord = Project
    THEN [s EXCEPT !.diagnostics =
                      IF LooseEqualsZero(OptionalLength(text, s.j + 2))
                      THEN Append(@, Diagnostic(text, s.offset, s.offset + 2,
                                                ExpectedProjectName,
                                                <<>>, <<>>))
                      ELSE @,
                   !.expectingSemicolon = "true",
                   !.keywordMatched = TRUE,
                   !.userDefinedString = TRUE]
    ELSE s

\* Lines 212-284: the forEach callback on letters[j]; a throw leaves it.
ScanLetterStep(s, text) ==
    LET letter == text[s.j + 1]
        s1 == WordBoundaryCheck(s, text, letter)
        s2 == CarriageReturnCheck(s1, text, letter)
    IN  IF s2.threw THEN s2
        ELSE LET s3 == KeywordTrigger(s2, text)
             IN  [s3 EXCEPT !.offset = @ + 1, !.j = @ + 1]

\* The whole forEach, from scan state s.
RECURSIVE RunScan(_, _)
RunScan(s, text) ==
    IF s.threw \/ s.j >= Len(text) THEN s ELSE RunScan(ScanLetterStep(s, text), text)

----------------------------------------------------------------------------
(* The texts scanned *)

MaxPieces == 4

Charakters == <<"c", "h", "a", "r", "a", "k", "t", "e", "r", "s">>
CapitalProject == <<"P", "r", "o", "j", "e", "c", "t">>
MyGame == <<"M", "y", "G", "a", "m", "e">>

Pieces ==
    {Project, CapitalProject, Charakters, <<"x">>, <<";">>, <<SP>>, <<CR>>,
     <<LF>>, <<TAB>>}

RECURSIVE PieceTexts(_)
PieceTexts(n) ==
    IF n = 0 THEN {<<>>}
    ELSE LET shorter == PieceTexts(n - 1)
         IN  shorter \cup {t \o p : t \in shorter, p \in Pieces}

\* The texts of the specification's examples.
TextProjectSemi == Project \o <<";", CR, LF>>
TextProjectMyGame == Project \o <<SP>> \o MyGame \o <<CR, LF>>
TextProjectMyGameSemi == Project \o <<SP>> \o MyGame \o <<";", CR, LF>>
TextCharakters == Charakters \o <<CR, LF>>
TextXX == <<"x", "x", CR, LF>>
TextProjectX == Project \o <<"X", SP, "x", "x", CR, LF, "x", "x", CR, LF>>

TextCharacters == Characters \o <<CR, LF>>
TextProjectTabs == Project \o <<SP, TAB, TAB, "x", CR, "x", CR>>

ExampleTexts ==
    {TextProjectSemi, TextProjectMyGame, TextProjectMyGameSemi, TextCharakters,
     TextXX, TextProjectX, TextCharacters, TextProjectTabs}

Texts == PieceTexts(MaxPieces) \cup ExampleTexts

----------------------------------------------------------------------------
(* The server: settings cache, document manager and event loop,            *)
(* server.ts 62-189.  Handlers run one at a time; a validateTextDocument   *)
(* call is suspended at `await getDocumentSettings` and its continuation   *)
(* runs as a microtask once the Thenable has settled, before the next      *)
(* message is handled.                                                     *)

\* No call of stringSimilarity under way.
(* onCompletion and onCompletionResolve *)

\* An optional string property of a CompletionItem.
NoDetail == [defined |-> FALSE, value |-> ""]
Detail(text) == [defined |-> TRUE, value |-> text]

CharactersDetail == "Specifies all the characters in the project."

CompletionItem(label, data, detail) ==
    [label |-> label, kind |-> "Keyword", data |-> data, detail |-> detail]

\* Lines 329-347: the list returned for every textDocument/completion.
onCompletion ==
    <<CompletionItem("characters", 1, NoDetail),
      CompletionItem("project", 2, NoDetail)>>

\* onCompletionResolve with the detail attached whatever item.data is.
onCompletionResolveAnyData(item) == [item EXCEPT !.detail = Detail(CharactersDetail)]

\* Lines 351-364: the switch on item.data, then return item.
onCompletionResolve(item) ==
    IF item.data = 1 THEN [item EXCEPT !.detail = Detail(CharactersDetail)]
    ELSE item

CompletionIdle == completions = <<>>

----------------------------------------------------------------------------
SimIdle ==
    /\ sim = [a |-> <<>>, b |-> <<>>, substringLength |-> 2,
              caseSensitive |-> FALSE, str1 |-> <<>>, str2 |-> <<>>,
              map |-> <<>>, i |-> 0, j |-> 0, match |-> 0,
              result |-> Ratio(0, 1)]
    /\ simPc = "idle"

\* No validation pass under way.
ScanIdle ==
    /\ letters = <<>>
    /\ scan = NewScanState
    /\ pc = "idle"

MaxCalls == 2

URIs == {"u1", "u2"}

\* The texts documents are given.
DocTexts == {TextXX, <<"x", LF>>}

\* Settings are their maxNumberOfProblems.
defaultSettings == 1000

\* package.json: the default of luma.maxNumberOfProblems a client answers with.
ConfiguredMaxProblems == 100

\* change.settings.luma of a configuration change: absent, or a Settings.
LumaSections ==
    {[present |-> FALSE, maxNumberOfProblems |-> 0],
     [present |-> TRUE, maxNumberOfProblems |-> ConfiguredMaxProblems]}

ServerInit ==
    /\ lifecycle = "created"
    /\ hasConfigurationCapability = FALSE
    /\ globalSettings = defaultSettings
    /\ documentSettings = [u \in URIs |-> 0]
    /\ promises = <<>>
    /\ documents = [u \in URIs |-> 0]
    /\ docObjs = <<>>
    /\ calls = <<>>
    /\ issued = 0
    /\ fetches = [u \in URIs |-> 0]
    /\ outcomes = {}

\* The state of the Thenable a call awaits; index 0 is the already resolved
\* Promise.resolve(globalSettings) of line 149.
PromiseState(p) == IF p = 0 THEN "resolved" ELSE promises[p].state

\* The suspended calls whose continuation is ready to run.
Resumable == {k \in DOMAIN calls : PromiseState(calls[k].promise) # "pending"}

\* The event loop takes the next message only with no microtask left.
CanHandleMessage == lifecycle = "initialized" /\ Resumable = {}

\* CacheAfterLookup without line 157, documentSettings.set.
CacheNotStored(cache, resource, fresh) == cache

\* getDocumentSettings, lines 151-158: the cache after the lookup of
\* resource, where fresh is the Thenable of a new getConfiguration request.
CacheAfterLookup(cache, resource, fresh) ==
    IF cache[resource] = 0 THEN [cache EXCEPT ![resource] = fresh] ELSE cache

\* getDocumentSettings, lines 147-160, and the suspension of the call of
\* validateTextDocument(textDocument) at line 201, for the object doc of
\* the document contents store (the contents as the handler leaves them).
StartValidation(doc, uri, store) ==
    LET cached == documentSettings[uri]
        fresh == Len(promises) + 1
        fetch == hasConfigurationCapability /\ cached = 0
        awaited == IF ~hasConfigurationCapability THEN 0
                   ELSE IF cached = 0 THEN fresh ELSE cached
    IN  /\ issued < MaxCalls
        /\ issued' = issued + 1
        /\ promises' = IF fetch
                       THEN Append(promises, [uri |-> uri, state |-> "pending",
                                              value |-> 0])
                       ELSE promises
        /\ documentSettings' = IF hasConfigurationCapability
                               THEN CacheAfterLookup(documentSettings, uri, fresh)
                               ELSE documentSettings
        /\ fetches' = IF fetch THEN [fetches EXCEPT ![uri] = @ + 1] ELSE fetches
        /\ calls' = Append(calls, [doc |-> doc, uri |-> uri,
                                   promise |-> awaited,
                                   settings |-> globalSettings,
                                   textAtCall |-> store[doc]])

\* connection.onInitialize, lines 66-104.
Initialize(configuration) ==
    /\ lifecycle = "created"
    /\ lifecycle' = "initialized"
    /\ hasConfigurationCapability' = configuration
    /\ UNCHANGED <<globalSettings, documentSettings, promises, documents,
                   docObjs, calls, issued, fetches, outcomes, scanVars, simVars, completionVars>>

\* A document is opened: the manager creates its TextDocument and fires
\* onDidChangeContent (lines 187-189).
DidOpen(uri, text) ==
    /\ CanHandleMessage
    /\ documents[uri] = 0
    /\ docObjs' = Append(docObjs, text)
    /\ documents' = [documents EXCEPT ![uri] = Len(docObjs) + 1]
    /\ StartValidation(Len(docObjs) + 1, uri, docObjs')
    /\ UNCHANGED <<lifecycle, hasConfigurationCapability, globalSettings,
                   outcomes, scanVars, simVars, completionVars>>

\* A document is changed: the manager updates its TextDocument object in
\* place (incremental sync, line 85) and fires onDidChangeContent
\* (lines 187-189).
DidChangeContent(uri, text) ==
    /\ CanHandleMessage
    /\ documents[uri] # 0
    /\ docObjs[documents[uri]] # text
    /\ docObjs' = [docObjs EXCEPT ![documents[uri]] = text]
    /\ StartValidation(documents[uri], uri, docObjs')
    /\ UNCHANGED <<lifecycle, hasConfigurationCapability, globalSettings,
                   documents, outcomes, scanVars, simVars, completionVars>>

\* documents.onDidClose, lines 163-165; the manager forgets the document.
DidClose(uri) ==
    /\ CanHandleMessage
    /\ documents[uri] # 0
    /\ documents' = [documents EXCEPT ![uri] = 0]
    /\ documentSettings' = [documentSettings EXCEPT ![uri] = 0]
    /\ fetches' = [fetches EXCEPT ![uri] = 0]
    /\ UNCHANGED <<lifecycle, hasConfigurationCapability, globalSettings,
                   promises, docObjs, calls, issued, outcomes, scanVars, simVars, completionVars>>

\* connection.onDidChangeConfiguration, lines 132-145.
DidChangeConfiguration(luma) ==
    /\ CanHandleMessage
    /\ IF hasConfigurationCapability
       THEN /\ documentSettings' = [u \in URIs |-> 0]
            /\ fetches' = [u \in URIs |-> 0]
            /\ UNCHANGED globalSettings
       ELSE /\ globalSettings' = IF luma.present THEN luma.maxNumberOfProblems
                                 ELSE defaultSettings
            /\ UNCHANGED <<documentSettings, fetches>>
    /\ UNCHANGED <<lifecycle, hasConfigurationCapability, promises, documents,
                   docObjs, calls, issued, outcomes, scanVars, simVars, completionVars>>

\* connection.languages.diagnostics.on, lines 168-183.
DiagnosticsRequest(uri) ==
    /\ CanHandleMessage
    /\ IF documents[uri] # 0
       THEN /\ StartValidation(documents[uri], uri, docObjs)
            /\ UNCHANGED outcomes
       ELSE /\ outcomes' = outcomes \cup
                               {[status |-> "unknown document",
                                 uri |-> uri, fetch |-> "none", settings |-> 0,
                                 textAtCall |-> <<>>, text |-> <<>>,
                                 diagnostics |-> <<>>]}
            /\ UNCHANGED <<documentSettings, promises, calls, issued, fetches>>
    /\ UNCHANGED <<lifecycle, hasConfigurationCapability, globalSettings,
                   documents, docObjs, scanVars, simVars, completionVars>>

\* The client's answer to a getConfiguration request (lines 153-156): the
\* Thenable resolves with the settings, or rejects.
ConfigurationResponse(p, ok) ==
    /\ CanHandleMessage
    /\ promises[p].state = "pending"
    /\ promises' = [promises EXCEPT
                       ![p].state = IF ok THEN "resolved" ELSE "rejected",
                       ![p].value = IF ok THEN ConfiguredMaxProblems ELSE 0]
    /\ UNCHANGED <<lifecycle, hasConfigurationCapability, globalSettings,
                   documentSettings, documents, docObjs, calls, issued,
                   fetches, outcomes, scanVars, simVars, completionVars>>

\* What the continuation of call c produces, lines 201-320: with a rejected
\* Thenable the await throws and the call rejects; otherwise the text is
\* read from the document object and scanned.
Continuation(c, final) ==
    LET settled == PromiseState(c.promise)
    IN  [status |-> IF settled = "rejected" \/ final.threw THEN "rejected"
                    ELSE "returned",
         uri |-> c.uri,
         fetch |-> IF c.promise = 0 THEN "none" ELSE settled,
         settings |-> IF c.promise = 0 THEN c.settings
                      ELSE promises[c.promise].value,
         textAtCall |-> c.textAtCall,
         text |-> IF settled = "rejected" THEN <<>> ELSE docObjs[c.doc],
         diagnostics |-> IF settled = "rejected" \/ final.threw THEN <<>>
                         ELSE final.diagnostics]

\* The continuation of the first suspended call whose Thenable has settled.
Resume ==
    /\ Resumable # {}
    /\ LET k == CHOOSE m \in Resumable : \A n \in Resumable : m <= n
           c == calls[k]
           rejected == PromiseState(c.promise) = "rejected"
           final == IF rejected THEN scan
                    ELSE RunScan(ScanStateAtCall(scan), docObjs[c.doc])
       IN  /\ calls' = [m \in 1..(Len(calls) - 1) |->
                           IF m < k THEN calls[m] ELSE calls[m + 1]]
           /\ outcomes' = outcomes \cup {Continuation(c, final)}
           /\ scan' = final
    /\ UNCHANGED <<lifecycle, hasConfigurationCapability, globalSettings,
                   documentSettings, promises, documents, docObjs, issued,
                   fetches, letters, pc, simVars, completionVars>>

Init ==
    /\ ServerInit
    /\ ScanIdle
    /\ SimIdle
    /\ CompletionIdle

Next ==
    \/ \E configuration \in BOOLEAN : Initialize(configuration)
    \/ \E uri \in URIs, text \in DocTexts : DidOpen(uri, text)
    \/ \E uri \in URIs, text \in DocTexts : DidChangeContent(uri, text)
    \/ \E uri \in URIs : DidClose(uri)
    \/ \E luma \in LumaSections : DidChangeConfiguration(luma)
    \/ \E uri \in URIs : DiagnosticsRequest(uri)
    \/ \E p \in DOMAIN promises, ok \in BOOLEAN : ConfigurationResponse(p, ok)
    \/ Resume

Spec == Init /\ [][Next]_vars

----------------------------------------------------------------------------
(* SimSpec: one call of stringSimilarity, one loop iteration per step *)

MaxStrLen == 3
MaxSubstringLength == 3

SimAlphabet == {"a", "b", "A"}

RECURSIVE StringsUpTo(_)
StringsUpTo(n) ==
    IF n = 0 THEN {<<>>}
    ELSE LET shorter == StringsUpTo(n - 1)
         IN  shorter \cup {Append(t, c) : t \in shorter, c \in SimAlphabet}

SimStrings == StringsUpTo(MaxStrLen)

SimInit ==
    /\ \E a \in SimStrings, b \in SimStrings,
          n \in 0..MaxSubstringLength, cs \in BOOLEAN :
           sim = [a |-> a, b |-> b, substringLength |-> n,
                  caseSensitive |-> cs, str1 |-> a, str2 |-> b,
                  map |-> <<>>, i |-> 0, j |-> 0, match |-> 0,
                  result |-> Ratio(0, 1)]
    /\ simPc = "start"
    /\ ScanIdle
    /\ ServerInit
    /\ CompletionIdle

\* Lines 36-41: the case folding and the length check.
SimStart ==
    /\ simPc = "start"
    /\ LET str1 == SimFold(sim.str1, sim.caseSensitive)
           str2 == SimFold(sim.str2, sim.caseSensitive)
           short == \/ Len(str1) < sim.substringLength
                    \/ Len(str2) < sim.substringLength
       IN  /\ sim' = [sim EXCEPT !.str1 = str1, !.str2 = str2,
                                 !.result = IF short THEN Ratio(0, 1) ELSE @]
           /\ simPc' = IF short THEN "done" ELSE "build"
    /\ UNCHANGED <<scanVars, serverVars, completionVars>>

\* Lines 44-47: one iteration of the first loop, or its end.
SimBuild ==
    /\ simPc = "build"
    /\ IF sim.i < Len(sim.str1) - (sim.substringLength - 1)
       THEN /\ sim' = [sim EXCEPT
                          !.map = SimBuildStep(@, sim.str1, sim.i,
                                               sim.substringLength),
                          !.i = @ + 1]
            /\ simPc' = "build"
       ELSE /\ simPc' = "match"
            /\ UNCHANGED sim
    /\ UNCHANGED <<scanVars, serverVars, completionVars>>

\* Lines 50-57: one iteration of the second loop.
SimMatch ==
    /\ simPc = "match"
    /\ sim.j < Len(sim.str2) - (sim.substringLength - 1)
    /\ LET mm == SimMatchStep([map |-> sim.map, match |-> sim.match],
                              sim.str2, sim.j, sim.substringLength)
       IN  sim' = [sim EXCEPT !.map = mm.map, !.match = mm.match, !.j = @ + 1]
    /\ UNCHANGED <<simPc, scanVars, serverVars, completionVars>>

\* Line 59.
SimReturn ==
    /\ simPc = "match"
    /\ ~(sim.j < Len(sim.str2) - (sim.substringLength - 1))
    /\ sim' = [sim EXCEPT !.result = SimResult(sim.match, sim.str1, sim.str2,
                                               sim.substringLength)]
    /\ simPc' = "done"
    /\ UNCHANGED <<scanVars, serverVars, completionVars>>

SimNext == SimStart \/ SimBuild \/ SimMatch \/ SimReturn

SimSpec == SimInit /\ [][SimNext]_vars

----------------------------------------------------------------------------
(* ScanSpec: one validation pass over a text, one letter per step *)

ScanInit ==
    /\ letters \in Texts
    /\ scan = ScanStateAtCall(NewScanState)
    /\ pc = "scan"
    /\ ServerInit
    /\ SimIdle
    /\ CompletionIdle

\* One call of the forEach callback.
ScanLetter ==
    /\ pc = "scan"
    /\ scan.j < Len(letters)
    /\ scan' = ScanLetterStep(scan, letters)
    /\ pc' = IF scan'.threw THEN "threw" ELSE "scan"
    /\ UNCHANGED <<letters, serverVars, simVars, completionVars>>

\* Line 320: return diagnostics.
ScanReturn ==
    /\ pc = "scan"
    /\ scan.j >= Len(letters)
    /\ pc' = "returned"
    /\ UNCHANGED <<letters, scan, serverVars, simVars, completionVars>>

ScanNext == ScanLetter \/ ScanReturn

ScanSpec == ScanInit /\ [][ScanNext]_vars

----------------------------------------------------------------------------
(* CompletionSpec: completion and resolve requests, one per step *)

MaxRequests == 3

\* The items a client sends to completionItem/resolve: the listed ones, as
\* listed or changed by the client, and items of its own.
ResolveLabels == {"characters", "project"}
ResolveData == {0, 1, 2, 3}
ResolveDetails == {NoDetail, Detail("client")}

ResolveItems ==
    {CompletionItem(label, data, detail) :
        label \in ResolveLabels, data \in ResolveData, detail \in ResolveDetails}

CompletionInit ==
    /\ CompletionIdle
    /\ ServerInit
    /\ ScanIdle
    /\ SimIdle

\* Lines 329-347: a textDocument/completion request is served.
Completion ==
    /\ Len(completions) < MaxRequests
    /\ completions' = Append(completions,
                             [request |-> "completion", item |-> <<>>,
                              reply |-> onCompletion])
    /\ UNCHANGED <<scanVars, serverVars, simVars>>

\* Lines 351-364: a completionItem/resolve request is served.
CompletionResolve(item) ==
    /\ Len(completions) < MaxRequests
    /\ completions' = Append(completions,
                             [request |-> "resolve", item |-> <<item>>,
                              reply |-> <<onCompletionResolve(item)>>])
    /\ UNCHANGED <<scanVars, serverVars, simVars>>

CompletionNext ==
    \/ Completion
    \/ \E item \in ResolveItems : CompletionResolve(item)

CompletionSpec == CompletionInit /\ [][CompletionNext]_vars

----------------------------------------------------------------------------
(* Properties of one validation pass (ScanSpec) *)

\* A step of the forEach callback is about to process letters[scan.j].
AtLetter == pc = "scan" /\ scan.j < Len(letters)

WithMessage(diags, message) == SelectSeq(diags, LAMBDA d : d.message = message)

Returned(text) == pc = "returned" /\ letters = text

\* C1: validating "project;\r\n" returns a list that contains an
\* 'Expected project name.' diagnostic.
C1_ProjectSemiReportsMissingName ==
    Returned(TextProjectSemi) =>
        \E i \in DOMAIN scan.diagnostics :
            scan.diagnostics[i].message = ExpectedProjectName

\* C2: at every step after which formingWord is exactly 'project': when the
\* text has no character at j + 2 the step emits an 'Expected project name.'
\* diagnostic spanning [j, j + 2), and when it has one the step emits none.
C2_Step ==
    (AtLetter /\ scan'.formingWord = Project) =>
        LET before == WithMessage(scan.diagnostics, ExpectedProjectName)
            after == WithMessage(scan'.diagnostics, ExpectedProjectName)
        IN  IF scan.j + 2 >= Len(letters)
            THEN after = Append(before,
                                Diagnostic(letters, scan.j, scan.j + 2,
                                           ExpectedProjectName, <<>>, <<>>))
            ELSE after = before

C2_MissingNameAtEndOfText == [][C2_Step]_vars

\* C3: a step emits an 'Expected ; after project name.' diagnostic exactly
\* when its letter is a carriage return, expectingSemicolon is true and the
\* letter before is not ';', and then emits one, spanning [j - 1, j);
\* expectingSemicolon is true after a step exactly when the accumulator
\* equals 'project' or it was true and the letter is no carriage return.
C3_Step ==
    AtLetter =>
        LET j == scan.j
            letter == letters[j + 1]
            before == WithMessage(scan.diagnostics, ExpectedSemicolon)
            after == WithMessage(scan'.diagnostics, ExpectedSemicolon)
            due == /\ letter = CR
                   /\ scan.expectingSemicolon = "true"
                   /\ j >= 1
                   /\ letters[j] # ";"
        IN  /\ after = IF due
                       THEN Append(before,
                                   [start |-> j - 1, end |-> j,
                                    message |-> ExpectedSemicolon,
                                    word |-> <<>>, suggestion |-> <<>>])
                       ELSE before
            /\ (scan'.expectingSemicolon = "true") <=>
                   \/ scan'.formingWord = Project
                   \/ scan.expectingSemicolon = "true" /\ letter # CR

\* C3, its examples: "project MyGame\r\n" yields exactly one such
\* diagnostic, "project MyGame;\r\n" none, a text without carriage return none.
C3_Examples ==
    LET n == Len(WithMessage(scan.diagnostics, ExpectedSemicolon))
    IN  /\ Returned(TextProjectMyGame) => n = 1
        /\ Returned(TextProjectMyGameSemi) => n = 0
        /\ (\A i \in DOMAIN letters : letters[i] # CR) => n = 0

\* C3: the 'Expected ; after project name.' diagnostic is emitted at a
\* carriage return that ends an armed line without ';' and nowhere else.
C3_MissingTerminator == [][C3_Step]_vars /\ []C3_Examples

C3_Witness ==
    /\ Returned(TextProjectMyGame)
    /\ Len(WithMessage(scan.diagnostics, ExpectedSemicolon)) = 1

\* The score exceeds 0.7.
ExceedsSevenTenths(score) == 10 * score.num > 7 * score.den

\* The first Keyword Directory entry that scores above 0.7 against word, or
\* the empty string.
FirstCloseKeyword(word) ==
    LET close == {k \in DOMAIN knownTokens :
                     ExceedsSevenTenths(stringSimilarity(word, knownTokens[k],
                                                         2, FALSE))}
    IN  IF close = {} THEN <<>>
        ELSE knownTokens[CHOOSE k \in close : \A m \in close : k <= m]

\* C4: a step that ends a word of trimmed length > 1 with neither
\* keywordMatched nor userDefinedString set emits exactly one 'Cannot find'
\* diagnostic, for that word, suggesting the first entry that scores above
\* 0.7 and nothing when none does.
C4_Step ==
    AtLetter =>
        LET word == scan.formingWord
            before == WithMessage(scan.diagnostics, CannotFind)
            after == WithMessage(scan'.diagnostics, CannotFind)
        IN  (/\ EndOfWord(letters[scan.j + 1])
             /\ Len(trim(word)) > 1
             /\ ~scan.keywordMatched
             /\ ~scan.userDefinedString) =>
                /\ Len(after) = Len(before) + 1
                /\ SubSeq(after, 1, Len(before)) = before
                /\ after[Len(after)].word = word
                /\ after[Len(after)].suggestion = FirstCloseKeyword(trim(word))

\* C4, its examples: "charakters\r\n" yields exactly one diagnostic, which
\* suggests 'characters'; "xx\r\n" yields one diagnostic with no suggestion.
C4_Examples ==
    /\ Returned(TextCharakters) =>
           /\ Len(scan.diagnostics) = 1
           /\ scan.diagnostics[1].message = CannotFind
           /\ scan.diagnostics[1].suggestion = Characters
    /\ Returned(TextXX) =>
           /\ Len(scan.diagnostics) = 1
           /\ scan.diagnostics[1].message = CannotFind
           /\ scan.diagnostics[1].suggestion = <<>>

\* C4: every unflagged word of trimmed length > 1 that ends gets exactly one
\* 'Cannot find' diagnostic, with the 'Did you mean' suffix exactly when a
\* Keyword Directory entry scores above 0.7, naming the first such entry.
C4_UnresolvedWord == [][C4_Step]_vars /\ []C4_Examples

C4_Witness ==
    /\ Returned(TextCharakters)
    /\ Len(scan.diagnostics) = 1
    /\ scan.diagnostics[1].suggestion = Characters

\* C5: the validator never raises: no pass throws, and a pass that returns
\* has scanned the whole text.
C5_NeverRaises ==
    /\ pc # "threw"
    /\ ~scan.threw
    /\ pc = "returned" => scan.j = Len(letters)

\* A returned pass over a text that starts with a carriage return.
C5_Witness ==
    /\ pc = "returned"
    /\ letters # <<>>
    /\ letters[1] = CR
    /\ scan.diagnostics # <<>>

----------------------------------------------------------------------------
(* Properties of the server (Spec) *)

\* The diagnostics of a validation of text on its own.
IsolatedValidation(text) == RunScan(NewScanState, text).diagnostics

\* C6: a validation whose settings fetch was rejected still returns its
\* diagnostics, with the default settings.
C6_RejectedFetchFallsBack ==
    \A o \in outcomes :
        o.fetch = "rejected" =>
            /\ o.status = "returned"
            /\ o.settings = defaultSettings
            /\ o.diagnostics = IsolatedValidation(o.textAtCall)

\* C7: any two validations that returned after scanning the same text
\* returned identical diagnostic lists, whatever ran between them.
C7_SameTextSameDiagnostics ==
    \A o1 \in outcomes, o2 \in outcomes :
        (/\ o1.status = "returned"
         /\ o2.status = "returned"
         /\ o1.text = o2.text) => o1.diagnostics = o2.diagnostics

\* Two validations of the same text, for different documents, that reported
\* something.
C7_Witness ==
    \E o1 \in outcomes, o2 \in outcomes :
        /\ o1.status = "returned"
        /\ o2.status = "returned"
        /\ o1.uri # o2.uri
        /\ o1.text = o2.text
        /\ o1.diagnostics # <<>>

\* C8: every call returns the diagnostics of an isolated validation of the
\* text its document had when the call was made.
C8_DiagnosticsOfTextAtCall ==
    \A o \in outcomes :
        o.status = "returned" => o.diagnostics = IsolatedValidation(o.textAtCall)

\* C9: with the configuration capability, at most one configuration fetch
\* is issued for a URI between two removals of its cache entry, and every
\* suspended call of a URI whose entry is cached since awaits that entry.
C9_OneFetchPerCacheEntry ==
    hasConfigurationCapability =>
        \A u \in URIs :
            /\ fetches[u] <= 1
            /\ fetches[u] = 1 <=> documentSettings[u] # 0

\* Two calls for one URI suspended on the same pending fetch.
C9_Witness ==
    /\ hasConfigurationCapability
    /\ Len(calls) = 2
    /\ calls[1].uri = calls[2].uri
    /\ calls[1].promise = calls[2].promise
    /\ PromiseState(calls[1].promise) = "pending"
    /\ fetches[calls[1].uri] = 1

----------------------------------------------------------------------------
(* Properties of stringSimilarity (SimSpec) *)

\* The length-n substrings of str, by their 0-based start.
Windows(str, n) == {i \in 0..(Len(str) - n) : TRUE}

Occurrences(str, n, g) == Cardinality({i \in Windows(str, n) : substr(str, i, n) = g})

Min(x, y) == IF x <= y THEN x ELSE y

RECURSIVE SumOver(_, _, _, _)
SumOver(grams, A, B, n) ==
    IF grams = {} THEN 0
    ELSE LET g == CHOOSE x \in grams : TRUE
         IN  Min(Occurrences(A, n, g), Occurrences(B, n, g))
                 + SumOver(grams \ {g}, A, B, n)

\* The size of the multiset intersection of the length-n substrings of A
\* and of B.
CommonSubstrings(A, B, n) ==
    SumOver({substr(A, i, n) : i \in Windows(A, n)}, A, B, n)

\* The score of the claim for strings A and B: 0 when either is shorter than
\* n, else 2m / (len(A) + len(B) - 2(n - 1)), in [0, 1], with a positive
\* denominator.
IsDiceScore(result, A, B, n) ==
    IF Len(A) < n \/ Len(B) < n
    THEN result = Ratio(0, 1)
    ELSE LET den == Len(A) + Len(B) - 2 * (n - 1)
         IN  /\ den > 0
             /\ result = Ratio(2 * CommonSubstrings(A, B, n), den)
             /\ 0 <= result.num
             /\ result.num <= result.den

\* C10 as stated: the score is that of the substrings of the arguments A
\* and B themselves.
C10_ScoreOfArguments ==
    (simPc = "done" /\ ~sim.caseSensitive) =>
        IsDiceScore(sim.result, sim.a, sim.b, sim.substringLength)

\* C10, amended: the score is that of the substrings of the lower-cased
\* arguments, or of the arguments themselves when caseSensitive is set.
C10_ScoreOfFoldedArguments ==
    simPc = "done" =>
        IsDiceScore(sim.result,
                    IF sim.caseSensitive THEN sim.a ELSE toLowerCase(sim.a),
                    IF sim.caseSensitive THEN sim.b ELSE toLowerCase(sim.b),
                    sim.substringLength)

\* A repeated bigram of B meets a single occurrence in A, after folding.
C10_Witness ==
    /\ simPc = "done"
    /\ ~sim.caseSensitive
    /\ sim.substringLength = 2
    /\ sim.a = <<"A", "a">>
    /\ sim.b = <<"a", "a", "a">>
    /\ sim.result = Ratio(2, 3)

\* No length-2 substring occurs twice in str.
NoRepeatedBigram(str) ==
    \A i \in Windows(str, 2), k \in Windows(str, 2) :
        substr(str, i, 2) = substr(str, k, 2) => i = k

\* A finished call with the default substringLength and caseSensitive.
DefaultCallDone ==
    simPc = "done" /\ sim.substringLength = 2 /\ ~sim.caseSensitive

\* C11: for inputs a and b of equal length without repeated bigram,
\* stringSimilarity(a, b) equals stringSimilarity(b, a).
C11_Symmetric ==
    (/\ DefaultCallDone
     /\ Len(sim.a) = Len(sim.b)
     /\ NoRepeatedBigram(sim.a)
     /\ NoRepeatedBigram(sim.b)) =>
        sim.result = stringSimilarity(sim.b, sim.a, 2, FALSE)

\* Two different strings of such a pair that share a bigram but not all.
C11_Witness ==
    /\ DefaultCallDone
    /\ Len(sim.a) = Len(sim.b)
    /\ sim.a # sim.b
    /\ NoRepeatedBigram(sim.a)
    /\ NoRepeatedBigram(sim.b)
    /\ sim.result.num > 0
    /\ sim.result.num < sim.result.den

\* C12: stringSimilarity(s, s) is exactly 1 for every s at least as long
\* as the substring length, repeated bigrams or not.
C12_SelfSimilarityIsOne ==
    (/\ simPc = "done"
     /\ sim.a = sim.b
     /\ Len(sim.a) >= sim.substringLength) =>
        /\ sim.result.den > 0
        /\ sim.result.num = sim.result.den

\* A string with a repeated bigram compared with itself.
C12_Witness ==
    /\ DefaultCallDone
    /\ sim.a = <<"a", "a", "a">>
    /\ sim.b = sim.a
    /\ sim.result = Ratio(4, 4)

----------------------------------------------------------------------------
(* Further properties of one validation pass (ScanSpec) *)

\* The letter the last step processed is a word boundary.
AfterBoundary == pc = "scan" /\ scan.j >= 1 /\ EndOfWord(letters[scan.j])

\* The step under way appends a 'Cannot find' diagnostic.
ReportsWord ==
    Len(WithMessage(scan'.diagnostics, CannotFind))
        > Len(WithMessage(scan.diagnostics, CannotFind))

\* C13: the start offsets of the returned diagnostics are non-decreasing
\* from the first element to the last.
C13_OrderedByStart ==
    pc = "returned" =>
        \A i \in 1..(Len(scan.diagnostics) - 1) :
            scan.diagnostics[i].start <= scan.diagnostics[i + 1].start

\* C15: after a word-boundary character has been processed formingWord is
\* empty.
C15_DiscardedAtBoundary == AfterBoundary => scan.formingWord = <<>>

\* C16: userDefinedString holds from the step at which the accumulator
\* equals 'project' until the next carriage return has been processed; no
\* step that starts with it set reports a word; the trigger arms the
\* terminator check; after a carriage return neither flag is set, and a word
\* of trimmed length > 1 that ends with neither set is reported.
C16_Step ==
    AtLetter =>
        LET letter == letters[scan.j + 1]
        IN  /\ scan'.userDefinedString <=>
                   \/ scan'.formingWord = Project
                   \/ scan.userDefinedString /\ letter # CR
            /\ scan.userDefinedString => ~ReportsWord
            /\ scan'.formingWord = Project => scan'.expectingSemicolon = "true"
            /\ letter = CR => ~scan'.userDefinedString /\ ~scan'.keywordMatched
            /\ scan'.keywordMatched => scan'.userDefinedString
            /\ (/\ EndOfWord(letter)
                /\ Len(trim(scan.formingWord)) > 1
                /\ ~scan.userDefinedString) => ReportsWord

\* C16, its example: in "projectX xx\r\nxx\r\n" neither 'projectX' nor the
\* first 'xx' is reported, the first line misses its terminator, and the
\* second 'xx' is reported.
C16_Example ==
    Returned(TextProjectX) =>
        /\ Len(scan.diagnostics) = 2
        /\ scan.diagnostics[1] =
               [start |-> 10, end |-> 11, message |-> ExpectedSemicolon,
                word |-> <<>>, suggestion |-> <<>>]
        /\ scan.diagnostics[2] =
               [start |-> 13, end |-> 15, message |-> CannotFind,
                word |-> <<"x", "x">>, suggestion |-> <<>>]

\* C16: no word that ends between the 'project' trigger and the next
\* carriage return is reported, the token holding 'project' and the word
\* ended by that carriage return included; the words after it are.
C16_ExemptUntilCarriageReturn == [][C16_Step]_vars /\ []C16_Example

C16_Witness ==
    /\ Returned(TextProjectX)
    /\ Len(scan.diagnostics) = 2
    /\ scan.diagnostics[2].message = CannotFind

\* C17: a word that is exactly 'characters' or 'project' and ends at a word
\* boundary is not reported.
C17_Step ==
    (/\ AtLetter
     /\ EndOfWord(letters[scan.j + 1])
     /\ \E k \in DOMAIN knownTokens : scan.formingWord = knownTokens[k]) =>
        ~ReportsWord

C17_KeywordsNotReported == [][C17_Step]_vars

\* C18: every diagnostic has a range inside the text, 0 <= start < end <=
\* length of the text.
C18_RangeInsideText ==
    \A i \in DOMAIN scan.diagnostics :
        /\ 0 <= scan.diagnostics[i].start
        /\ scan.diagnostics[i].start < scan.diagnostics[i].end
        /\ scan.diagnostics[i].end <= Len(letters)

\* A returned pass with a diagnostic of each of the two kinds emitted.
C18_Witness ==
    /\ pc = "returned"
    /\ WithMessage(scan.diagnostics, CannotFind) # <<>>
    /\ WithMessage(scan.diagnostics, ExpectedSemicolon) # <<>>

\* C19: the text between the start and the end of a 'Cannot find'
\* diagnostic is the word its message quotes.
C19_RangeCoversWord ==
    \A i \in DOMAIN scan.diagnostics :
        scan.diagnostics[i].message = CannotFind =>
            SubSeq(letters, scan.diagnostics[i].start + 1,
                   scan.diagnostics[i].end) = scan.diagnostics[i].word

\* C20: after every step expectingSemicolon is true exactly when
\* userDefinedString is; after a carriage return neither is; keywordMatched
\* is false after every word-boundary character; no carriage return has both
\* a 'Cannot find' and an 'Expected ;' diagnostic ending at it.
C20_FlagsAgree ==
    /\ (scan.expectingSemicolon = "true") <=> scan.userDefinedString
    /\ AfterBoundary => ~scan.keywordMatched
    /\ (AfterBoundary /\ letters[scan.j] = CR) =>
           ~scan.userDefinedString /\ scan.formingWord # Project
    /\ \A i \in DOMAIN scan.diagnostics, k \in DOMAIN scan.diagnostics :
           (/\ scan.diagnostics[i].message = CannotFind
            /\ scan.diagnostics[k].message = ExpectedSemicolon) =>
               scan.diagnostics[i].end # scan.diagnostics[k].end

\* Just after a carriage return that ended an unreported word of two letters
\* or more and drew the 'Expected ;' diagnostic.
C20_Witness ==
    /\ AfterBoundary
    /\ scan.j >= 3
    /\ letters[scan.j] = CR
    /\ ~EndOfWord(letters[scan.j - 1])
    /\ ~EndOfWord(letters[scan.j - 2])
    /\ scan.diagnostics # <<>>
    /\ scan.diagnostics[Len(scan.diagnostics)].message = ExpectedSemicolon
    /\ scan.diagnostics[Len(scan.diagnostics)].end = scan.j - 1
    /\ WithMessage(scan.diagnostics, CannotFind) = <<>>

----------------------------------------------------------------------------
(* Properties of the completion handlers (CompletionSpec) *)

\* C14: every completion request, whatever was served before it, is
\* answered with exactly two items, 'characters' with data 1 then 'project'
\* with data 2; resolving an item whose data is 1 returns it with a
\* non-empty detail and nothing else changed; resolving an item with any
\* other data returns it unchanged.
C14_CompletionReplies ==
    \A k \in DOMAIN completions :
        LET c == completions[k]
        IN  /\ c.request = "completion" =>
                   /\ Len(c.reply) = 2
                   /\ c.reply[1].label = "characters" /\ c.reply[1].data = 1
                   /\ c.reply[2].label = "project" /\ c.reply[2].data = 2
            /\ c.request = "resolve" =>
                   IF c.item[1].data = 1
                   THEN /\ c.reply[1].detail.defined
                        /\ c.reply[1].detail.value # ""
                        /\ c.reply[1] = [c.item[1] EXCEPT !.detail = c.reply[1].detail]
                   ELSE c.reply[1] = c.item[1]

\* The two listed items have been resolved and the list asked for again.
C14_Witness ==
    /\ Len(completions) = 3
    /\ completions[1].request = "resolve"
    /\ completions[1].item = <<onCompletion[1]>>
    /\ completions[1].reply[1].detail = Detail(CharactersDetail)
    /\ completions[2].request = "resolve"
    /\ completions[2].item = <<onCompletion[2]>>
    /\ completions[2].reply = completions[2].item
    /\ completions[3].request = "completion"
    /\ Len(completions[3].reply) = 2

====
